---- MODULE Spec2Model ----
(***************************************************************************)
(* ByteHunter orchestration core (src/config/ai-tools/bytehunter.py):      *)
(* the task queue, the five agents, create_assessment_workflow and the     *)
(* single-pass scheduler execute_workflow with its findings collection     *)
(* and final report.                                                       *)
(***************************************************************************)
EXTENDS Integers, Sequences, FiniteSets, TLC

VARIABLES
    now,              \* the last value datetime.now() returned, in seconds
    task_queue,       \* ByteHunter.task_queue
    completed_tasks,  \* ByteHunter.completed_tasks (ids of the tasks appended)
    all_findings,     \* ByteHunter.all_findings
    agents,           \* ByteHunter.agents: status and current_task of each
    report_files,     \* bytehunter_report_<workflow_id>.md files written
    returned,         \* value of the last create_assessment_workflow call
    pc,               \* position of the caller / of execute_workflow
    task_index,       \* execute_workflow's task_index (1-based)
    workflow_id,      \* execute_workflow's workflow_id argument
    exit,             \* how the last execute_workflow call ended
    summary,          \* what main's "View Findings Summary" last showed
    report_call,      \* the last direct ReportAgent call: task and result
    agent_call        \* a direct call of any agent: agent, task, the commands
                      \* it started, those that failed, and the result

vars == <<now, task_queue, completed_tasks, all_findings, agents,
          report_files, returned, pc, task_index, workflow_id, exit,
          summary, report_call, agent_call>>

(* ------------------------------ bounds --------------------------------- *)
\* last second the clock reaches
MaxClock == 1
\* create_assessment_workflow is not called when the queue would outgrow this
MaxQueueLen == 10
\* execute_workflow is not called when completed_tasks could outgrow this
MaxCompleted == 6
\* length of a queue submitted by the caller (QueueSpec)
MaxTasks == 2
\* dependency edges in a queue submitted by the caller (QueueSpec)
MaxEdges == 2
\* largest priority number of a submitted task (PrioritySpec)
MaxPriority == 2
\* length of the findings list of a report task built by the caller
\* (ReportSpec)
MaxFindings == 3
\* execute_workflow is not called when completed_tasks could outgrow this
\* (AllSucceedSpec: a second run over two workflows)
MaxExecuted == 15

(* ------------------------------ values --------------------------------- *)
\* Python's None, for a task result and for the workflow_id argument
None == [none |-> TRUE]
\* Python's None for agent.current_task (compared with task ids)
NoTask == <<>>

\* AgentStatus (enum values)
IDLE == "idle"
RUNNING == "running"
COMPLETED == "completed"
FAILED == "failed"
WAITING == "waiting"
AgentStatus == {IDLE, RUNNING, COMPLETED, FAILED, WAITING}

\* keys of ByteHunter.agents, in insertion order
AgentTypes == {"recon", "vulnerability", "bugbounty", "report", "opsec"}

\* targets the caller passes
Targets == {"t1", "t2"}

\* an empty dict
EmptyDict == [k \in {} |-> TRUE]

\* dict.get(key, default)
Get(d, k, default) == IF k \in DOMAIN d THEN d[k] ELSE default

\* AgentTask(...) after __post_init__: status IDLE, result None
AgentTask(id, agent_type, target, task_data, priority, dependencies) ==
    [id |-> id, agent_type |-> agent_type, target |-> target,
     task_data |-> task_data, priority |-> priority,
     dependencies |-> dependencies, status |-> IDLE, result |-> None]

\* SecurityFinding(...): the fields the orchestrator and the report read
SecurityFinding(id, agent, severity) ==
    [type |-> "SecurityFinding", id |-> id, agent |-> agent,
     severity |-> severity]

\* a Python str held in a result list
Str(s) == [type |-> "str", id |-> s]

\* result values: a list and a dict
ListOf(items) == [kind |-> "list", items |-> items]
DictVal == [kind |-> "dict", items |-> <<>>]

(* ----------------------- workflow and task ids ------------------------- *)
\* f"workflow_{datetime.now().strftime('%Y%m%d_%H%M%S')}": one id per second
WorkflowId(t) == <<"workflow", t>>
\* f"{workflow_id}_recon" and the like
TaskId(wid, suffix) == wid \o <<suffix>>

(* ------------------------------ agents --------------------------------- *)
\* what interrupts the try body of an execute_task: nothing, an Exception
\* (caught by `except Exception`), or a BaseException such as
\* KeyboardInterrupt (not caught, propagates to the caller)
Raised == {"none", "Exception", "BaseException"}

\* external commands whose subprocess.run may raise (timeout) in each agent
ToolsOf(agent_type) ==
    CASE agent_type = "recon" -> {"subfinder", "amass", "nmap", "whatweb"}
      [] agent_type = "vulnerability" -> {"nmap_vuln", "nikto"}
      [] agent_type = "bugbounty" -> {"sqlmap"}
      [] OTHER -> {}

Severities == {"Critical", "High", "Medium", "Low"}

\* 1 when a finding has severity s, else 0
CountSeverity_present(findings, s) ==
    IF \E i \in 1..Len(findings) : findings[i].severity = s THEN 1 ELSE 0

\* len([f for f in findings if f.severity == s])
CountSeverity(findings, s) ==
    Cardinality({i \in 1..Len(findings) : findings[i].severity = s})

\* ReportAgent._generate_comprehensive_report: header (target, date),
\* findings overview, then one numbered block per finding in input order
_generate_comprehensive_report(findings, target, date) ==
    [target |-> target,
     date |-> date,
     overview |-> [s \in Severities |-> CountSeverity(findings, s)],
     details |-> [i \in 1..Len(findings) |-> <<i, findings[i]>>]]

\* a str value of a result dict
StrVal(doc) == [kind |-> "str", doc |-> doc]

\* ReconAgent.execute_task's results dict, as (key, value) pairs in
\* insertion order; /tmp/subfinder.txt is taken to be absent
ReconResults(task, timeouts) ==
    LET ops == Get(task.task_data, "operations", {})
    IN  (IF "subdomain_enumeration" \in ops
            THEN << <<"subdomains", ListOf(<<>>)>> >> ELSE <<>>)
        \o (IF "port_scanning" \in ops
            THEN << <<"ports", DictVal>> >> ELSE <<>>)
        \o (IF "technology_detection" \in ops
            THEN << <<"technologies",
                      ListOf(IF "whatweb" \in timeouts THEN <<>>
                             ELSE <<Str("whatweb_completed")>>)>> >>
            ELSE <<>>)

\* VulnerabilityAgent._vulnerability_scan
_vulnerability_scan(timeouts) ==
    IF "nmap_vuln" \in timeouts
    THEN <<SecurityFinding("vuln_error", "vuln_001", "Low")>>
    ELSE <<SecurityFinding("vuln_001", "vuln_001", "Medium")>>

\* VulnerabilityAgent._web_vulnerability_scan
_web_vulnerability_scan(timeouts) ==
    IF "nikto" \in timeouts THEN <<>>
    ELSE <<SecurityFinding("web_vuln_001", "vuln_001", "Medium")>>

\* VulnerabilityAgent.execute_task's results dict
VulnResults(task, timeouts) ==
    LET ops == Get(task.task_data, "operations", {})
    IN  (IF "vulnerability_scanning" \in ops
            THEN << <<"vulnerabilities", ListOf(_vulnerability_scan(timeouts))>> >>
            ELSE <<>>)
        \o (IF "web_vulnerabilities" \in ops
            THEN << <<"web_vulns", ListOf(_web_vulnerability_scan(timeouts))>> >>
            ELSE <<>>)

\* BugBountyAgent._hunt_bugs
_hunt_bugs(task_data, timeouts) ==
    (IF Get(task_data, "test_sql_injection", TRUE) /\ "sqlmap" \notin timeouts
        THEN <<SecurityFinding("bb_sql_001", "bounty_001", "High")>> ELSE <<>>)
    \o (IF Get(task_data, "test_xss", TRUE)
        THEN <<SecurityFinding("bb_xss_001", "bounty_001", "Medium")>> ELSE <<>>)

\* OpSecAgent._assess_operational_security
_assess_operational_security ==
    <<SecurityFinding("opsec_001", "opsec_001", "Medium"),
      SecurityFinding("opsec_002", "opsec_001", "Low")>>

\* the results dict the try body of <agent>.execute_task builds
Results(agent_type, task, timeouts, date) ==
    CASE agent_type = "recon" -> ReconResults(task, timeouts)
      [] agent_type = "vulnerability" -> VulnResults(task, timeouts)
      [] agent_type = "bugbounty" ->
            << <<"bug_bounty_findings", ListOf(_hunt_bugs(task.task_data, timeouts))>> >>
      [] agent_type = "opsec" ->
            << <<"opsec_findings", ListOf(_assess_operational_security)>> >>
      [] agent_type = "report" ->
            << <<"report",
                 StrVal(_generate_comprehensive_report(
                            Get(task.task_data, "findings", <<>>),
                            task.target, date))>> >>

\* <agent>.execute_task when it returns: the result dict
execute_task(agent_type, task, raised, timeouts, date) ==
    IF raised = "none"
    THEN [status |-> "success", data |-> Results(agent_type, task, timeouts, date)]
    ELSE [status |-> "error", message |-> raised]

\* self.status an execute_task leaves on the agent
StatusAfter(raised) ==
    CASE raised = "none" -> COMPLETED
      [] raised = "Exception" -> FAILED
      [] OTHER -> RUNNING

\* _extract_findings stopping after the first entry of data
_extract_findings_first_entry(data) ==
    IF Len(data) = 0 THEN <<>>
    ELSE LET value == Head(data)[2]
         IN  IF value.kind = "list" /\ Len(value.items) > 0
                /\ value.items[1].type = "SecurityFinding"
             THEN value.items ELSE <<>>

\* ByteHunter._extract_findings: the findings it appends to all_findings
RECURSIVE _extract_findings(_)
_extract_findings(data) ==
    IF Len(data) = 0 THEN <<>>
    ELSE LET value == Head(data)[2]
         IN  (IF value.kind = "list" /\ Len(value.items) > 0
                 /\ value.items[1].type = "SecurityFinding"
              THEN value.items ELSE <<>>)
             \o _extract_findings(Tail(data))

\* assignment in place of extend
extend_by_assignment(list, items) == items

\* list.extend(items)
extend(list, items) == list \o items

(* --------------------------- ByteHunter -------------------------------- *)
\* ByteHunter.__init__
Init ==
    /\ now = 0
    /\ task_queue = <<>>
    /\ completed_tasks = <<>>
    /\ all_findings = <<>>
    /\ agents = [a \in AgentTypes |-> [status |-> IDLE, current_task |-> NoTask]]
    /\ report_files = EmptyDict
    /\ returned = None
    /\ pc = "idle"
    /\ task_index = 1
    /\ workflow_id = None
    /\ exit = "none"
    /\ summary = None
    /\ report_call = None
    /\ agent_call = None

\* the five tasks of a comprehensive assessment, each depending on the
\* previous one
ComprehensiveTasks(wid, target) ==
    <<AgentTask(TaskId(wid, "recon"), "recon", target,
                [operations |-> {"subdomain_enumeration", "port_scanning",
                                 "technology_detection"}],
                1, {}),
      AgentTask(TaskId(wid, "vuln"), "vulnerability", target,
                [operations |-> {"vulnerability_scanning", "web_vulnerabilities"}],
                2, {TaskId(wid, "recon")}),
      AgentTask(TaskId(wid, "bounty"), "bugbounty", target,
                [test_sql_injection |-> TRUE, test_xss |-> TRUE],
                3, {TaskId(wid, "vuln")}),
      AgentTask(TaskId(wid, "opsec"), "opsec", target, EmptyDict,
                4, {TaskId(wid, "bounty")}),
      AgentTask(TaskId(wid, "report"), "report", target, EmptyDict,
                5, {TaskId(wid, "opsec")})>>

\* ByteHunter.create_assessment_workflow(target, assessment_type), called
\* when datetime.now() returns t
create_assessment_workflow(target, assessment_type, t) ==
    /\ pc = "idle"
    /\ assessment_type = "comprehensive" => Len(task_queue) + 5 <= MaxQueueLen
    /\ now' = t
    /\ LET wid == WorkflowId(t)
       IN  /\ task_queue' =
                IF assessment_type = "comprehensive"
                THEN task_queue \o ComprehensiveTasks(wid, target)
                ELSE task_queue
           /\ returned' = wid
    /\ UNCHANGED <<completed_tasks, all_findings, agents, report_files,
                   pc, task_index, workflow_id, exit, summary,
                   report_call, agent_call>>

\* dependencies_met with any() in place of all()
dependencies_met_any(task, queue) ==
    \E j \in 1..Len(queue) :
        queue[j].id \in task.dependencies /\ queue[j].status = COMPLETED

\* the dependency check of execute_workflow: every queued task whose id is
\* in task.dependencies is COMPLETED
dependencies_met(task, queue) ==
    \A j \in 1..Len(queue) :
        queue[j].id \in task.dependencies => queue[j].status = COMPLETED

\* StoredStatus taken from the agent's outcome
StoredStatus_by_outcome(result) ==
    IF result.status = "success" THEN COMPLETED ELSE FAILED

\* `task.status = AgentStatus.COMPLETED` left out
StoredStatus_unchanged(result) == IDLE

\* the status execute_workflow stores on a task whose agent returned
StoredStatus(result) == COMPLETED

\* execute_workflow(workflow_id) is called
execute_workflow(wid) ==
    /\ pc = "idle"
    /\ pc' = "loop"
    /\ task_index' = 1
    /\ workflow_id' = wid
    /\ exit' = "none"
    /\ UNCHANGED <<now, task_queue, completed_tasks, all_findings, agents,
                   report_files, returned, summary,
                   report_call, agent_call>>

\* the skip branch without `task_index += 1` before `continue`
AfterSkip_no_increment(index) == index

\* `task_index += 1; continue` of the skip branch
AfterSkip(index) == index + 1

\* one visit of the loop body up to the agent invocation. Dependencies not
\* met: task_index += 1; continue. Otherwise the agent lookup (KeyError when
\* the type has no agent), agent.current_task = task, and execute_task is
\* entered. (A queue built by create_assessment_workflow alone never takes
\* the KeyError, and takes the skip branch only when two workflows share an
\* id; submitted queues take both.)
VisitTask ==
    /\ pc = "loop"
    /\ task_index <= Len(task_queue)
    /\ LET task == task_queue[task_index]
       IN  IF task.dependencies # {} /\ ~dependencies_met(task, task_queue)
           THEN /\ task_index' = AfterSkip(task_index)
                /\ UNCHANGED <<agents, pc, exit>>
           ELSE /\ task_index' = task_index
                /\ IF task.agent_type \in DOMAIN agents
                   THEN /\ agents' = [agents EXCEPT ![task.agent_type] =
                                         [status |-> RUNNING, current_task |-> task.id]]
                        /\ pc' = "running"
                        /\ exit' = exit
                   ELSE /\ pc' = "idle"
                        /\ exit' = "KeyError"
                        /\ agents' = agents
    /\ UNCHANGED <<now, task_queue, completed_tasks, all_findings,
                   report_files, returned, workflow_id, summary,
                   report_call, agent_call>>

\* execute_task returns (the report agent having read the clock at t):
\* result and COMPLETED stored on the task, findings collected, current_task
\* cleared, task appended to completed_tasks
TaskReturns(raised, timeouts, t) ==
    /\ pc = "running"
    /\ raised # "BaseException"
    /\ now' = t
    /\ LET task == task_queue[task_index]
           result == execute_task(task.agent_type, task, raised, timeouts, t)
       IN  /\ task_queue' = [task_queue EXCEPT ![task_index].result = result,
                                               ![task_index].status = StoredStatus(result)]
           /\ all_findings' =
                IF result.status = "success" /\ "data" \in DOMAIN result
                THEN extend(all_findings, _extract_findings(result.data))
                ELSE all_findings
           /\ agents' = [agents EXCEPT ![task.agent_type] =
                            [status |-> StatusAfter(raised), current_task |-> NoTask]]
           /\ completed_tasks' = Append(completed_tasks, task.id)
    /\ task_index' = task_index + 1
    /\ pc' = "loop"
    /\ UNCHANGED <<report_files, returned, workflow_id, exit, summary,
                   report_call, agent_call>>

\* execute_task is left by an exception that `except Exception` does not
\* catch: execute_workflow is left by it too
TaskFaults ==
    /\ pc = "running"
    /\ pc' = "idle"
    /\ exit' = "BaseException"
    /\ UNCHANGED <<now, task_queue, completed_tasks, all_findings, agents,
                   report_files, returned, task_index, workflow_id, summary,
                   report_call, agent_call>>

\* the target _generate_final_report gives its report task
FinalReportTarget(queue) ==
    IF Len(queue) > 0 THEN queue[1].target ELSE "unknown"

\* end of the loop: `if workflow_id: self._generate_final_report(workflow_id)`
\* (the report agent reading the clock at t), then execute_workflow returns
FinishWorkflow(raised, t) ==
    /\ pc = "loop"
    /\ task_index > Len(task_queue)
    /\ IF workflow_id # None /\ Len(all_findings) > 0
       THEN LET report_task ==
                    AgentTask(TaskId(workflow_id, "final_report"), "report",
                              FinalReportTarget(task_queue),
                              [findings |-> all_findings], 1, {})
                result == execute_task("report", report_task, raised, {}, t)
            IN  /\ now' = t
                /\ agents' = [agents EXCEPT !["report"].status = StatusAfter(raised)]
                /\ report_files' =
                      IF result.status = "success"
                      THEN [w \in DOMAIN report_files \cup {workflow_id} |->
                               IF w = workflow_id THEN result.data[1][2].doc
                               ELSE report_files[w]]
                      ELSE report_files
                /\ exit' = IF raised = "BaseException" THEN "BaseException"
                           ELSE "returned"
       ELSE /\ raised = "none"
            /\ t = now
            /\ exit' = "returned"
            /\ UNCHANGED <<now, agents, report_files>>
    /\ pc' = "idle"
    /\ UNCHANGED <<task_queue, completed_tasks, all_findings, returned,
                   task_index, workflow_id, summary,
                   report_call, agent_call>>

\* the values datetime.now() may return next
Clock == now..MaxClock

\* completed_tasks stays within MaxCompleted during the next run
WithinMaxCompleted ==
    Len(completed_tasks) + Len(task_queue) <= MaxCompleted

\* the steps execute_workflow takes once called
WorkflowStep ==
    \/ VisitTask
    \/ /\ pc = "running"
       /\ \E raised \in Raised \ {"BaseException"} :
            \E timeouts \in SUBSET ToolsOf(task_queue[task_index].agent_type) :
               \E t \in (IF task_queue[task_index].agent_type = "report"
                          THEN Clock ELSE {now}) :
                  TaskReturns(raised, timeouts, t)
    \/ TaskFaults
    \/ \E raised \in Raised, t \in Clock : FinishWorkflow(raised, t)

Next ==
    \/ \E target \in Targets, assessment_type \in {"comprehensive", "quick"},
          t \in Clock :
         create_assessment_workflow(target, assessment_type, t)
    \/ WithinMaxCompleted /\ \E wid \in {None, returned} : execute_workflow(wid)
    \/ WorkflowStep

Spec == Init /\ [][Next]_vars

(* ------------------------ main: the menu loop -------------------------- *)
\* `severity_counts = {}` keeping the dict of the previous summary
StartCounts_kept(previous) == previous

\* `severity_counts = {}`: the summary starts from an empty dict, whatever
\* main's local severity_counts held before
StartCounts(previous) == EmptyDict

\* `severity_counts[s] = 1`, the earlier count forgotten
Increment_overwrite(counts, severity) ==
    [k \in DOMAIN counts \cup {severity} |->
        IF k = severity THEN 1 ELSE counts[k]]

\* severity_counts[s] = severity_counts.get(s, 0) + 1
Increment(counts, severity) ==
    [k \in DOMAIN counts \cup {severity} |->
        IF k = severity THEN Get(counts, severity, 0) + 1 ELSE counts[k]]

\* the loop `for finding in bytehunter.all_findings` of the summary
RECURSIVE SeverityCounts(_, _)
SeverityCounts(findings, counts) ==
    IF Len(findings) = 0 THEN counts
    ELSE SeverityCounts(Tail(findings),
                        Increment(counts, Head(findings).severity))

\* menu choice 4, "View Findings Summary": the total and the count of each
\* severity met in all_findings, or "No findings yet" (no counts)
view_findings_summary ==
    /\ pc = "idle"
    /\ summary' =
         IF Len(all_findings) > 0
         THEN [total |-> Len(all_findings),
               severity_counts |->
                   SeverityCounts(all_findings,
                                  StartCounts(Get(summary, "severity_counts",
                                                  EmptyDict)))]
         ELSE [total |-> 0, severity_counts |-> EmptyDict]
    /\ UNCHANGED <<now, task_queue, completed_tasks, all_findings, agents,
                   report_files, returned, task_index, workflow_id, exit,
                   pc, report_call, agent_call>>

\* a session of main up to the end of its first comprehensive scan: scans
\* (choices 1 and 2: create_assessment_workflow, then execute_workflow with
\* the id it returned) and summaries (choice 4)
MenuNext ==
    \/ /\ task_queue = <<>>
       /\ \E target \in Targets, assessment_type \in {"comprehensive", "quick"},
             t \in Clock :
            create_assessment_workflow(target, assessment_type, t)
    \/ completed_tasks = <<>> /\ returned # None /\ execute_workflow(returned)
    \/ WorkflowStep
    \/ view_findings_summary

MenuSpec == Init /\ [][MenuNext]_vars

(* ----------------- workflows whose agents all succeed ------------------ *)
\* workflows are created and executed; every command and every agent
\* succeeds
AllSucceedNext ==
    \/ \E target \in Targets, assessment_type \in {"comprehensive", "quick"},
          t \in Clock :
         create_assessment_workflow(target, assessment_type, t)
    \/ /\ Len(completed_tasks) + Len(task_queue) <= MaxExecuted
       /\ returned # None
       /\ execute_workflow(returned)
    \/ VisitTask
    \/ /\ pc = "running"
       /\ \E t \in (IF task_queue[task_index].agent_type = "report"
                    THEN Clock ELSE {now}) :
             TaskReturns("none", {}, t)
    \/ \E t \in Clock : FinishWorkflow("none", t)

AllSucceedSpec == Init /\ [][AllSucceedNext]_vars

(* ---------------- queues submitted by the caller ----------------------- *)
\* subsets of S with at most k elements
BoundedSubsets(S, k) == {T \in SUBSET S : Cardinality(T) <= k}

\* id of the i-th submitted task; SubmittedId(0) is the id of no task
SubmittedId(i) == <<"task", i, "x">>

\* agent types of submitted tasks: one with an agent, one without
SubmittedTypes == {"opsec", "ghost"}

\* the queues a caller builds from AgentTask objects: n tasks with distinct
\* ids, any agent type, and any dependency lists over the ids of the queue
\* and one unknown id (self-dependencies, cycles, forward references)
SubmittedQueues ==
    UNION {
      UNION {
        { [i \in 1..n |->
              AgentTask(SubmittedId(i), types[i], "t1", EmptyDict, 1,
                        {e[2] : e \in {f \in edges : f[1] = i}})]
          : types \in [1..n -> SubmittedTypes] }
        : edges \in BoundedSubsets((1..n) \X {SubmittedId(j) : j \in 0..n}, MaxEdges) }
      : n \in 0..MaxTasks }

\* the queue of three tasks A, B (depends on A), C (depends on A)
SiblingQueue ==
    <<AgentTask(SubmittedId(1), "opsec", "t1", EmptyDict, 1, {}),
      AgentTask(SubmittedId(2), "opsec", "t1", EmptyDict, 1, {SubmittedId(1)}),
      AgentTask(SubmittedId(3), "opsec", "t1", EmptyDict, 1, {SubmittedId(1)})>>

\* a ByteHunter whose task_queue the caller has filled
QueueInit ==
    /\ now = 0
    /\ task_queue \in SubmittedQueues \cup {SiblingQueue}
    /\ completed_tasks = <<>>
    /\ all_findings = <<>>
    /\ agents = [a \in AgentTypes |-> [status |-> IDLE, current_task |-> NoTask]]
    /\ report_files = EmptyDict
    /\ returned = None
    /\ pc = "idle"
    /\ task_index = 1
    /\ workflow_id = None
    /\ exit = "none"
    /\ summary = None
    /\ report_call = None
    /\ agent_call = None

\* execute_workflow() over a submitted queue (workflow_id left at its
\* default, None)
QueueNext ==
    \/ WithinMaxCompleted /\ execute_workflow(None)
    \/ WorkflowStep

QueueSpec == QueueInit /\ [][QueueNext]_vars

\* execute_workflow over a submitted queue, the interpreter running the loop
\* on and every agent invocation ending (each external command has a timeout)
LiveQueueSpec == QueueSpec /\ WF_vars(WorkflowStep)

(* ------------- submitted queues with differing priorities -------------- *)
\* queues of opsec tasks with any priorities 1..MaxPriority and any
\* dependency lists over the ids of the queue
PriorityQueues ==
    UNION {
      UNION {
        { [i \in 1..n |->
              AgentTask(SubmittedId(i), "opsec", "t1", EmptyDict, priorities[i],
                        {e[2] : e \in {f \in edges : f[1] = i}})]
          : priorities \in [1..n -> 1..MaxPriority] }
        : edges \in BoundedSubsets((1..n) \X {SubmittedId(j) : j \in 1..n}, MaxEdges) }
      : n \in 0..MaxTasks }

PriorityInit ==
    /\ now = 0
    /\ task_queue \in PriorityQueues
    /\ completed_tasks = <<>>
    /\ all_findings = <<>>
    /\ agents = [a \in AgentTypes |-> [status |-> IDLE, current_task |-> NoTask]]
    /\ report_files = EmptyDict
    /\ returned = None
    /\ pc = "idle"
    /\ task_index = 1
    /\ workflow_id = None
    /\ exit = "none"
    /\ summary = None
    /\ report_call = None
    /\ agent_call = None

\* the first execute_workflow() over the submitted queue
PriorityNext ==
    \/ completed_tasks = <<>> /\ execute_workflow(None)
    \/ WorkflowStep

PrioritySpec == PriorityInit /\ [][PriorityNext]_vars

(* ------------------ report tasks built by the caller ------------------- *)
\* lists of up to MaxFindings findings of any severities, the i-th one
\* named f<i>
FindingLists ==
    UNION { { [i \in 1..n |->
                  SecurityFinding("f" \o ToString(i), "agent", severities[i])]
              : severities \in [1..n -> Severities] }
            : n \in 0..MaxFindings }

\* a ByteHunter and a report task the caller has built, as menu choice 5
\* does: AgentTask(id, "report", target, {"findings": findings}); the id,
\* which the report agent does not read, is left without its timestamp
ReportInit ==
    /\ now = 0
    /\ task_queue = <<>>
    /\ completed_tasks = <<>>
    /\ all_findings = <<>>
    /\ agents = [a \in AgentTypes |-> [status |-> IDLE, current_task |-> NoTask]]
    /\ report_files = EmptyDict
    /\ returned = None
    /\ pc = "idle"
    /\ task_index = 1
    /\ workflow_id = None
    /\ exit = "none"
    /\ summary = None
    /\ agent_call = None
    /\ \E findings \in FindingLists, target \in Targets :
          report_call =
              [task |-> AgentTask(<<"manual_report">>, "report", target,
                                  [findings |-> findings], 1, {}),
               result |-> None]

\* bytehunter.agents["report"].execute_task(report_task), the agent reading
\* the clock at t
report_execute_task(raised, t) ==
    /\ pc = "idle"
    /\ report_call # None
    /\ raised # "BaseException"
    /\ now' = t
    /\ report_call' =
          [report_call EXCEPT
              !.result = execute_task("report", report_call.task, raised, {}, t)]
    /\ agents' = [agents EXCEPT !["report"].status = StatusAfter(raised)]
    /\ UNCHANGED <<task_queue, completed_tasks, all_findings, report_files,
                   returned, pc, task_index, workflow_id, exit, summary,
                   agent_call>>

ReportNext ==
    \E raised \in Raised \ {"BaseException"}, t \in Clock :
        report_execute_task(raised, t)

ReportSpec == ReportInit /\ [][ReportNext]_vars

(* ---------------- agents called directly by the caller ----------------- *)
\* the external commands <agent>.execute_task starts for a task: it looks
\* at task.task_data only, never at task.agent_type
CommandsOf(agent_type, task) ==
    LET ops == Get(task.task_data, "operations", {})
    IN  CASE agent_type = "recon" ->
                (IF "subdomain_enumeration" \in ops
                    THEN {"subfinder", "amass"} ELSE {})
                \cup (IF "port_scanning" \in ops THEN {"nmap"} ELSE {})
                \cup (IF "technology_detection" \in ops THEN {"whatweb"} ELSE {})
          [] agent_type = "vulnerability" ->
                (IF "vulnerability_scanning" \in ops THEN {"nmap_vuln"} ELSE {})
                \cup (IF "web_vulnerabilities" \in ops THEN {"nikto"} ELSE {})
          [] agent_type = "bugbounty" ->
                IF Get(task.task_data, "test_sql_injection", TRUE)
                THEN {"sqlmap"} ELSE {}
          [] OTHER -> {}

\* a ByteHunter, one of its agents and a task of a comprehensive assessment
\* the caller is about to hand to that agent
AgentInit ==
    /\ now = 0
    /\ task_queue = <<>>
    /\ completed_tasks = <<>>
    /\ all_findings = <<>>
    /\ agents = [a \in AgentTypes |-> [status |-> IDLE, current_task |-> NoTask]]
    /\ report_files = EmptyDict
    /\ returned = None
    /\ pc = "idle"
    /\ task_index = 1
    /\ workflow_id = None
    /\ exit = "none"
    /\ summary = None
    /\ report_call = None
    /\ \E agent \in AgentTypes, target \in Targets, k \in 1..5 :
          agent_call =
              [agent |-> agent,
               task |-> ComprehensiveTasks(WorkflowId(0), target)[k],
               commands |-> {}, failed |-> {}, result |-> None]

\* bytehunter.agents[agent].execute_task(task): the commands in `timeouts`
\* fail or time out; an Exception is one raised in the try body before any
\* command is started
agent_execute_task(raised, timeouts, t) ==
    /\ pc = "idle"
    /\ agent_call # None
    /\ raised # "BaseException"
    /\ timeouts \subseteq CommandsOf(agent_call.agent, agent_call.task)
    /\ raised = "Exception" => timeouts = {}
    /\ now' = t
    /\ agent_call' =
          [agent_call EXCEPT
              !.commands = IF raised = "none"
                           THEN CommandsOf(agent_call.agent, agent_call.task)
                           ELSE {},
              !.failed = timeouts,
              !.result = execute_task(agent_call.agent, agent_call.task,
                                      raised, timeouts, t)]
    /\ agents' = [agents EXCEPT ![agent_call.agent].status = StatusAfter(raised)]
    /\ UNCHANGED <<task_queue, completed_tasks, all_findings, report_files,
                   returned, pc, task_index, workflow_id, exit, summary,
                   report_call>>

AgentNext ==
    \E raised \in Raised \ {"BaseException"},
       timeouts \in SUBSET ToolsOf(agent_call.agent),
       t \in (IF agent_call.agent = "report" THEN Clock ELSE {now}) :
        agent_execute_task(raised, timeouts, t)

AgentSpec == AgentInit /\ [][AgentNext]_vars

(* ============================== claims ================================= *)
Terminal == {COMPLETED, FAILED}

TaskIndexes == 1..Len(task_queue)

\* the task has a result (task.result is not None)
HasResult(task) == "status" \in DOMAIN task.result

\* every queued task named in the dependencies of task i is Completed
DependenciesCompleted(i) ==
    \A j \in TaskIndexes :
        task_queue[j].id \in task_queue[i].dependencies
            => task_queue[j].status = COMPLETED

\* ids of the queued tasks
QueuedIds == {task_queue[j].id : j \in TaskIndexes}

\* C1: a task is handed to its agent, and becomes terminal, only in a state
\* where every queued task named in its dependencies is Completed.
C1_DependenciesBeforeDispatch ==
    [][ /\ (pc # "running" /\ pc' = "running") => DependenciesCompleted(task_index)
        /\ \A i \in TaskIndexes :
              (task_queue[i].status \notin Terminal
                 /\ task_queue'[i].status \in Terminal)
              => DependenciesCompleted(i) ]_vars

\* a task with a queued dependency is being executed
C1_Witness ==
    /\ pc = "running"
    /\ \E j \in TaskIndexes :
          /\ j # task_index
          /\ task_queue[j].id \in task_queue[task_index].dependencies

\* C2: a task whose only dependency got an error result from its agent is
\* not dispatched.
C2_FailedDependencyBlocks ==
    \A j \in TaskIndexes :
        (HasResult(task_queue[j]) /\ task_queue[j].result.status = "error")
        => ~(/\ pc = "running"
             /\ task_index # j
             /\ task_queue[task_index].dependencies = {task_queue[j].id})

\* C3: a task is Completed exactly when its agent returned success, Failed
\* exactly when it returned an error or the invocation faulted.
C3_StatusReflectsOutcome ==
    /\ \A i \in TaskIndexes :
          HasResult(task_queue[i])
          => /\ task_queue[i].status = COMPLETED
                  <=> task_queue[i].result.status = "success"
             /\ task_queue[i].status = FAILED
                  <=> task_queue[i].result.status = "error"
    /\ (pc = "idle" /\ exit \in {"KeyError", "BaseException"}
          /\ task_index \in TaskIndexes)
       => task_queue[task_index].status = FAILED

\* C4: A, B (depends on A), C (depends on A); A succeeds, B returns an error,
\* C succeeds: the run ends with A Completed, B Failed, C Completed.
C4_SiblingOutcome ==
    (/\ Len(task_queue) = 3
     /\ [i \in 1..3 |-> task_queue[i].dependencies]
           = [i \in 1..3 |-> SiblingQueue[i].dependencies]
     /\ pc = "idle" /\ exit = "returned" /\ Len(completed_tasks) = 3
     /\ \A i \in 1..3 : HasResult(task_queue[i])
     /\ [i \in 1..3 |-> task_queue[i].result.status]
           = <<"success", "error", "success">>)
    => [i \in 1..3 |-> task_queue[i].status] = <<COMPLETED, FAILED, COMPLETED>>

\* task i depends (directly) on task j
DependsOn(i, j) == task_queue[j].id \in task_queue[i].dependencies

\* tasks reachable from task i along at most n dependency edges (n >= 1)
RECURSIVE Reachable(_, _)
Reachable(i, n) ==
    LET direct == {j \in TaskIndexes : DependsOn(i, j)}
    IN  IF n <= 1 THEN direct
        ELSE direct \cup UNION {Reachable(j, n - 1) : j \in direct}

\* the dependency lists of the queue contain a cycle
HasCycle == \E i \in TaskIndexes : i \in Reachable(i, Len(task_queue))

\* C5: no task of a queue whose dependencies contain a cycle is executed.
C5_CyclicGraphNeverRuns ==
    HasCycle => (pc # "running" /\ completed_tasks = <<>>)

\* C6: a task naming an unknown dependency is never dispatched.
C6_UnknownDependencyNeverDispatched ==
    pc = "running" => task_queue[task_index].dependencies \subseteq QueuedIds

\* C7: the ids of the tasks in task_queue are pairwise distinct.
C7_DistinctIds ==
    \A i, j \in TaskIndexes : i # j => task_queue[i].id # task_queue[j].id

\* C8: every execute_workflow call ends, whatever the queue and the agents'
\* outcomes.
C8_Terminates == (pc # "idle") ~> (pc = "idle")

\* a run over a queue with a task it could not run has ended
C8_Witness ==
    /\ pc = "idle" /\ exit = "returned"
    /\ \E i \in TaskIndexes :
          /\ task_queue[i].status = IDLE
          /\ ~DependenciesCompleted(i)

\* C9: when execute_workflow returns, no task is Idle with all of its
\* dependencies Completed.
C9_ExhaustedOnReturn ==
    [][ (pc # "idle" /\ pc' = "idle" /\ exit' = "returned")
        => \A i \in TaskIndexes :
              ~(/\ task_queue'[i].status = IDLE
                /\ \A j \in TaskIndexes :
                      task_queue'[j].id \in task_queue'[i].dependencies
                          => task_queue'[j].status = COMPLETED) ]_vars

\* C10: a task that is Completed or Failed keeps that status.
C10_TerminalIsFinal ==
    [][ \A i \in TaskIndexes :
           task_queue[i].status \in Terminal
           => /\ i <= Len(task_queue')
              /\ task_queue'[i].id = task_queue[i].id
              /\ task_queue'[i].status = task_queue[i].status ]_vars

\* a Completed task has been executed a second time
C10_Witness ==
    \E i \in TaskIndexes :
        /\ task_queue[i].status = COMPLETED
        /\ Cardinality({k \in 1..Len(completed_tasks) :
                            completed_tasks[k] = task_queue[i].id}) >= 2

\* C11: only tasks that are Idle are handed to an agent, so no task that is
\* already Completed or Failed is executed again by a later execute_workflow.
C11_DispatchOnlyIdle ==
    [][ (pc # "running" /\ pc' = "running")
        => task_queue[task_index'].status = IDLE ]_vars

\* C12: while a task's agent invocation is in progress the task's stored
\* status is Running.
C12_RunningWhileInvoked ==
    pc = "running" => task_queue[task_index].status = RUNNING

\* task i is runnable: Idle with every queued dependency Completed
Runnable(i) ==
    task_queue[i].status = IDLE /\ DependenciesCompleted(i)

\* C13: the task handed to an agent has the smallest priority number among
\* the tasks runnable at that moment, wherever they stand in task_queue.
C13_PriorityOrder ==
    [][ (pc # "running" /\ pc' = "running")
        => \A i \in TaskIndexes :
              Runnable(i)
              => task_queue[task_index'].priority <= task_queue[i].priority ]_vars

\* the SecurityFinding objects in the list-valued entries of a result's data
RECURSIVE FindingsIn(_)
FindingsIn(data) ==
    IF Len(data) = 0 THEN <<>>
    ELSE (IF Head(data)[2].kind = "list"
          THEN SelectSeq(Head(data)[2].items,
                         LAMBDA x : x.type = "SecurityFinding")
          ELSE <<>>)
         \o FindingsIn(Tail(data))

\* the elements of a list
Elements(list) == {list[k] : k \in 1..Len(list)}

\* C14: when an agent returns success the findings of its result data are
\* appended to all_findings in the same step, so that at every dispatch the
\* findings of every successful task are in all_findings; when it returns an
\* error nothing is recorded.
C14_FindingsRecordedOnSuccess ==
    [][ /\ Len(completed_tasks') > Len(completed_tasks)
           => LET result == task_queue'[task_index].result
              IN  IF result.status = "success"
                  THEN all_findings' = all_findings \o FindingsIn(result.data)
                  ELSE all_findings' = all_findings
        /\ (pc # "running" /\ pc' = "running")
           => \A i \in TaskIndexes :
                 (HasResult(task_queue[i])
                    /\ task_queue[i].result.status = "success")
                 => Elements(FindingsIn(task_queue[i].result.data))
                        \subseteq Elements(all_findings') ]_vars

\* a task is dispatched after one task returned an error and another one
\* returned success with findings in two entries of its data
C14_Witness ==
    /\ pc = "running"
    /\ \E i \in TaskIndexes :
          HasResult(task_queue[i]) /\ task_queue[i].result.status = "error"
    /\ \E i \in TaskIndexes :
          /\ HasResult(task_queue[i])
          /\ task_queue[i].result.status = "success"
          /\ Len(FindingsIn(task_queue[i].result.data)) >= 2
          /\ Len(task_queue[i].result.data) >= 2

\* C15: all_findings only grows at its end: its value in a state is a prefix
\* of its value in the next state.
C15_FindingsAppendOnly ==
    [][ /\ Len(all_findings) <= Len(all_findings')
        /\ SubSeq(all_findings', 1, Len(all_findings)) = all_findings ]_vars

\* findings were appended to a list that already held findings
C15_Witness ==
    /\ Len(all_findings) >= 3
    /\ Cardinality({i \in TaskIndexes :
                       /\ HasResult(task_queue[i])
                       /\ task_queue[i].result.status = "success"
                       /\ Len(FindingsIn(task_queue[i].result.data)) > 0}) >= 2

\* number of findings of a list that have severity s
NumberWithSeverity(findings, s) ==
    Len(SelectSeq(findings, LAMBDA f : f.severity = s))

\* the count a summary shows for severity s: its entry, or none (zero)
ShownCount(counts, s) == Get(counts, s, 0)

\* C16: a findings summary computed from the current all_findings shows for
\* every severity level exactly the number of recorded findings with that
\* severity (a level without findings has no entry), has no other entry, and
\* its counts add up to the number of recorded findings.
C16_SummaryCounts ==
    (summary # None /\ summary.total = Len(all_findings))
    => /\ \A s \in Severities :
             ShownCount(summary.severity_counts, s)
                 = NumberWithSeverity(all_findings, s)
       /\ DOMAIN summary.severity_counts \subseteq Severities
       /\ ShownCount(summary.severity_counts, "Critical")
            + ShownCount(summary.severity_counts, "High")
            + ShownCount(summary.severity_counts, "Medium")
            + ShownCount(summary.severity_counts, "Low") = summary.total

\* a summary of findings of three severities, one of them met twice or more
C16_Witness ==
    /\ summary # None
    /\ summary.total = Len(all_findings)
    /\ Cardinality(DOMAIN summary.severity_counts) >= 3
    /\ \E s \in DOMAIN summary.severity_counts :
          summary.severity_counts[s] >= 2

\* C17: computing a summary changes neither all_findings nor any task, and a
\* summary differs from the one computed before it only when findings were
\* recorded in between (all_findings only grows, so its length tells).
C17_SummaryIdempotentReadOnly ==
    [][ summary' # summary
        => /\ all_findings' = all_findings
           /\ task_queue' = task_queue
           /\ summary # None => summary.total # Len(all_findings) ]_vars

\* a summary of the findings of an executed workflow is on display
C17_Witness ==
    /\ summary # None
    /\ summary.total = Len(all_findings)
    /\ summary.total > 0
    /\ \E i \in TaskIndexes : task_queue[i].status = COMPLETED

\* the workflow a task id names: f"{workflow_id}_recon" without its suffix
WorkflowOf(id) == SubSeq(id, 1, 2)

\* the queued tasks create_assessment_workflow made for workflow wid
TasksOf(wid) == {i \in TaskIndexes : WorkflowOf(task_queue[i].id) = wid}

\* C18: execute_workflow called for a workflow without tasks hands no task
\* to an agent, and once it has returned the findings summary has a zero
\* count for every severity level.
C18_EmptyWorkflowRunsNothing ==
    (workflow_id # None /\ TasksOf(workflow_id) = {})
    => /\ pc # "running"
       /\ (pc = "idle" /\ exit = "returned")
          => \A s \in Severities :
                ShownCount(SeverityCounts(all_findings, EmptyDict), s) = 0

\* the report task's agent returned a document
ReportReturned(call) ==
    /\ call # None
    /\ HasResult(call)
    /\ call.result.status = "success"

\* the document of a successful report call
Document(call) == call.result.data[1][2].doc

\* C19: the overview of a rendered report shows for each of Critical, High,
\* Medium and Low the number of input findings with that severity, and the
\* detail section lists every input finding once, in input order, numbered
\* 1..n.
C19_ReportCountsAndOrder ==
    ReportReturned(report_call)
    => LET findings == report_call.task.task_data.findings
           document == Document(report_call)
       IN  /\ DOMAIN document.overview = Severities
           /\ \A s \in Severities :
                 document.overview[s] = NumberWithSeverity(findings, s)
           /\ Len(document.details) = Len(findings)
           /\ \A i \in 1..Len(findings) :
                 document.details[i] = <<i, findings[i]>>

\* the report of three findings High, Low, High reads Critical 0, High 2,
\* Medium 0, Low 1
C19_Witness ==
    /\ ReportReturned(report_call)
    /\ [i \in 1..Len(report_call.task.task_data.findings) |->
           report_call.task.task_data.findings[i].severity]
          = <<"High", "Low", "High">>
    /\ Document(report_call).overview
          = [Critical |-> 0, High |-> 2, Medium |-> 0, Low |-> 1]

\* C20: two report calls with the same findings and the same target return
\* the same document, whatever the clock reads at each call.
C20_ReportDeterministic ==
    [][ (ReportReturned(report_call) /\ ReportReturned(report_call')
           /\ report_call'.task = report_call.task)
        => Document(report_call') = Document(report_call) ]_vars

\* the direct agent call has returned
AgentReturned == agent_call # None /\ HasResult(agent_call)

\* C21: an agent handed a task of another agent's type returns an error and
\* starts no external command.
C21_CategoryMismatchRejected ==
    (AgentReturned /\ agent_call.agent # agent_call.task.agent_type)
    => /\ agent_call.result.status = "error"
       /\ agent_call.commands = {}

\* C23: when a command started by execute_task fails or times out, the call
\* returns an error result and leaves the agent Failed; the agent is
\* Completed only after a success result.
C23_ToolFailureIsError ==
    AgentReturned
    => /\ agent_call.failed # {}
          => /\ agent_call.result.status = "error"
             /\ agents[agent_call.agent].status = FAILED
       /\ agents[agent_call.agent].status = COMPLETED
          => agent_call.result.status = "success"

\* the ways an exception leaves execute_workflow
Aborted == {"KeyError", "BaseException"}

\* C22: a failure of one task (its type has no agent, or its agent raises)
\* does not end execute_workflow: the call is not left while a later task
\* that does not depend on the failed one is still to be visited.
C22_FailureDoesNotAbort ==
    (pc = "idle" /\ exit \in Aborted)
    => \A j \in TaskIndexes :
          j > task_index
          => task_queue[task_index].id \in task_queue[j].dependencies

\* the findings in the results of the first n queued tasks that belong to
\* workflow wid, in queue order
RECURSIVE WorkflowFindings(_, _)
WorkflowFindings(wid, n) ==
    IF n = 0 THEN <<>>
    ELSE WorkflowFindings(wid, n - 1)
         \o (IF /\ n \in TasksOf(wid)
                /\ HasResult(task_queue[n])
                /\ task_queue[n].result.status = "success"
             THEN FindingsIn(task_queue[n].result.data)
             ELSE <<>>)

\* the findings a report document lists, in its order
Listed(document) ==
    [i \in 1..Len(document.details) |-> document.details[i][2]]

\* C24: the final report written for a workflow lists exactly the findings
\* of the results of that workflow's own tasks.
C24_FindingsPerWorkflow ==
    [][ report_files' # report_files
        => Listed(report_files'[workflow_id])
              = WorkflowFindings(workflow_id, Len(task_queue)) ]_vars

\* C25: a task has a result exactly when it is Completed or Failed, and a
\* result holds either data (success) or a message (error), never both and
\* never neither.
C25_ResultIffTerminal ==
    \A i \in TaskIndexes :
        /\ HasResult(task_queue[i]) <=> task_queue[i].status \in Terminal
        /\ HasResult(task_queue[i])
           => ("data" \in DOMAIN task_queue[i].result)
                 # ("message" \in DOMAIN task_queue[i].result)

\* one task ended with a success result, one with an error result, and a
\* third one is being executed
C25_Witness ==
    /\ pc = "running"
    /\ ~HasResult(task_queue[task_index])
    /\ \E i, j \in TaskIndexes :
          /\ HasResult(task_queue[i]) /\ HasResult(task_queue[j])
          /\ task_queue[i].result.status = "success"
          /\ task_queue[j].result.status = "error"

\* C26: at most one agent has a current_task, and none has one while
\* execute_workflow is not running.
C26_StrictlySequential ==
    /\ Cardinality({a \in AgentTypes : agents[a].current_task # NoTask}) <= 1
    /\ pc = "idle" => \A a \in AgentTypes : agents[a].current_task = NoTask

\* the agent types of the five phases, in order
Phases == <<"recon", "vulnerability", "bugbounty", "opsec", "report">>

\* C27: create_assessment_workflow returns workflow_<timestamp>; for the
\* comprehensive profile it appends five Idle tasks of the five phases, each
\* depending on the one before it; and, every agent succeeding, a run of
\* execute_workflow returns with the five tasks of every queued workflow
\* Completed and executed, during that run, one after the other in that order.
C27_ComprehensiveWorkflow ==
    [][ /\ returned' # returned => returned' = WorkflowId(now')
        /\ task_queue' # task_queue /\ pc = "idle"
           => LET n == Len(task_queue)
              IN  /\ Len(task_queue') = n + 5
                  /\ SubSeq(task_queue', 1, n) = task_queue
                  /\ \A k \in 1..5 :
                        /\ task_queue'[n + k].status = IDLE
                        /\ task_queue'[n + k].agent_type = Phases[k]
                        /\ task_queue'[n + k].dependencies =
                              IF k = 1 THEN {}
                              ELSE {task_queue'[n + k - 1].id}
        /\ (pc # "idle" /\ pc' = "idle" /\ exit' = "returned")
           => LET n == Len(task_queue)
                  m == Len(completed_tasks)
              IN  \A i \in 1..n :
                     task_queue[i].agent_type = Phases[1]
                     => /\ \A k \in 1..5 :
                              task_queue[i + k - 1].status = COMPLETED
                        /\ \E p \in 1..m :
                              /\ p > m - n
                              /\ p + 4 <= m
                              /\ \A k \in 1..5 :
                                    completed_tasks[p + k - 1]
                                       = task_queue[i + k - 1].id ]_vars

\* C28: the final report is written only by a call given a workflow_id, after
\* every queued task has been visited and when findings exist; it lists all
\* of all_findings and names the target of the tasks of the workflow being
\* executed.
C28_FinalReport ==
    [][ report_files' # report_files
        => /\ workflow_id # None
           /\ task_index > Len(task_queue)
           /\ Len(all_findings) > 0
           /\ Listed(report_files'[workflow_id]) = all_findings
           /\ \A i \in TasksOf(workflow_id) :
                 task_queue[i].target = report_files'[workflow_id].target ]_vars

\* the counts get_system_status prints
get_system_status ==
    [total     |-> Len(task_queue) + Len(completed_tasks),
     completed |-> Len(completed_tasks),
     pending   |-> Len(task_queue),
     findings  |-> Len(all_findings)]

\* C29: between calls, get_system_status prints as total the number of tasks
\* ever created, as completed the number of distinct tasks that reached a
\* terminal state, and as pending the number of tasks not yet executed, with
\* completed + pending = total.
C29_StatusCounts ==
    pc = "idle"
    => LET status == get_system_status
       IN  /\ status.total = Len(task_queue)
           /\ status.completed =
                 Cardinality({i \in TaskIndexes :
                                 task_queue[i].status \in Terminal})
           /\ status.pending =
                 Cardinality({i \in TaskIndexes : ~HasResult(task_queue[i])})
           /\ status.completed + status.pending = status.total

\* C30: when the report task of a workflow returns its report, the findings
\* the report lists are exactly the contents of all_findings at that moment.
C30_ReportTaskFindings ==
    [][ ( /\ pc = "running"
          /\ pc' = "loop"
          /\ task_queue[task_index].agent_type = "report"
          /\ task_queue'[task_index].result.status = "success" )
        => Listed(task_queue'[task_index].result.data[1][2].doc)
              = all_findings ]_vars

====
